---- MODULE Spec2Model ----
(***************************************************************************)
(* State machine of the USV operator console (App component): the readings *)
(* subscription, the vehicle position subscription and the mission command *)
(* handlers, with the React render that refreshes the handlers' closures.  *)
(*                                                                         *)
(* Sensor values (ph, temperature, tds, turbidity) are fixed-point numbers *)
(* in tenths (ph 6.5 is 65); the water quality score is kept doubled, so   *)
(* that the half points of the source are integers (score 3.5 is 7).       *)
(* Instants are integers in milliseconds.  A JavaScript object is a        *)
(* function from its present field names to their values: a missing field  *)
(* is a field name outside DOMAIN.                                         *)
(***************************************************************************)
EXTENDS Integers, Sequences, FiniteSets, TLC

VARIABLES
    isOnline,          \* useState(false)
    hasGpsFix,         \* useState(false)
    lastUpdate,        \* useState(new Date())
    sensorData,        \* useState({ph: 0, temperature: 0, tds: 0, turbidity: 0})
    waterQuality,      \* useState("good")
    vehiclePosition,   \* useState(null): <<>> is null, <<p>> is the position p
    trail,             \* useState([]): sequence of <<lat, lon>>
    mission,           \* useState(createEmptyMission()): the state React holds
    renderedMission,   \* the `mission` the handlers of the current render closed over
    addWaypointMode,   \* useState(false)
    chartData,         \* useState([])
    missionLog,        \* useState([])
    missions,          \* the store's "missions" collection: the create writes issued
    lastToast,         \* the last notification emitted through toast
    lastBatch,         \* history: the last readings snapshot delivered
    posHist,           \* history: the <<lat, lon>> of every position record delivered
    lastCmd,           \* history: the last mission command invoked
    lastPosEvent,      \* history: the kind of the last position snapshot delivered
    authState,         \* the outcome of signInAnonymously(auth)
    authReady,         \* the authReady promise: TRUE once it is fulfilled
    authLog,           \* what the reactions of authReady wrote to the console
    subscriptions      \* the paths onValue listens to

vars == <<isOnline, hasGpsFix, lastUpdate, sensorData, waterQuality, vehiclePosition,
          trail, mission, renderedMission, addWaypointMode, chartData, missionLog,
          missions, lastToast, lastBatch, posHist, lastCmd, lastPosEvent,
          authState, authReady, authLog, subscriptions>>

telemetryVars == <<isOnline, hasGpsFix, lastUpdate, sensorData, waterQuality, chartData>>
positionVars == <<vehiclePosition, trail>>
missionVars == <<mission, renderedMission, addWaypointMode, missionLog, missions, lastToast>>
sessionVars == <<authState, authReady, authLog, subscriptions>>

----------------------------------------------------------------------------
(* Bounds of the model *)

\* readings per delivered batch
MaxBatch == 2
\* position records delivered in the specification of the trail
MaxPos == 302
\* position records delivered in the other specifications
MaxPosFew == 2
\* waypoints of a mission
MaxWaypoints == 2
\* missions sent
MaxSends == 1
\* missions sent where the mission log is followed
MaxSendsLog == 2

----------------------------------------------------------------------------
(* JavaScript expressions *)

Has(o, f) == f \in DOMAIN o

\* o.f ?? d
Nullish(o, f, d) == IF Has(o, f) THEN o[f] ELSE d

\* o.f as a condition: a missing field and the number 0 are falsy
Truthy(o, f) == Has(o, f) /\ o[f] # 0

\* o.f || d
OrElse(o, f, d) == IF Truthy(o, f) THEN o[f] ELSE d

\* s.slice(-n)
SliceLast(s, n) == IF Len(s) <= n THEN s ELSE SubSeq(s, Len(s) - n + 1, Len(s))

\* new Date(t).toISOString(): keeps the milliseconds
ToISOString(t) == <<"iso", t>>

\* new Date(t).toLocaleTimeString("en-US", {hour, minute, second}): the second of the day
ToLocaleTimeString(t) == <<"hms", (t \div 1000) % 86400>>

\* new Date(t).toLocaleString("en-US", {year, month, day, hour, minute, second})
ToLocaleString(t) == <<"ymdhms", t \div 1000>>

\* Date.now().toString()
ToString10(t) == <<"dec", t>>

----------------------------------------------------------------------------
(* Water quality *)

\* calculateWaterQuality with a fault: the full pH band without its upper end
calculateWaterQualityOpenPh(data) ==
    LET phScore == IF data.ph >= 65 /\ data.ph < 85 THEN 2
                   ELSE IF data.ph >= 60 /\ data.ph <= 90 THEN 1 ELSE 0
        tempScore == IF data.temperature >= 200 /\ data.temperature <= 280 THEN 2
                     ELSE IF data.temperature >= 150 /\ data.temperature <= 320 THEN 1 ELSE 0
        tdsScore == IF data.tds < 5000 THEN 2 ELSE IF data.tds < 6000 THEN 1 ELSE 0
        turbScore == IF data.turbidity < 50 THEN 2 ELSE IF data.turbidity < 100 THEN 1 ELSE 0
        score == phScore + tempScore + tdsScore + turbScore
    IN  IF score >= 7 THEN "good" ELSE IF score >= 4 THEN "moderate" ELSE "poor"

calculateWaterQuality(data) ==
    LET phScore == IF data.ph >= 65 /\ data.ph <= 85 THEN 2
                   ELSE IF data.ph >= 60 /\ data.ph <= 90 THEN 1 ELSE 0
        tempScore == IF data.temperature >= 200 /\ data.temperature <= 280 THEN 2
                     ELSE IF data.temperature >= 150 /\ data.temperature <= 320 THEN 1 ELSE 0
        tdsScore == IF data.tds < 5000 THEN 2 ELSE IF data.tds < 6000 THEN 1 ELSE 0
        turbScore == IF data.turbidity < 50 THEN 2 ELSE IF data.turbidity < 100 THEN 1 ELSE 0
        score == phScore + tempScore + tdsScore + turbScore
    IN  IF score >= 7 THEN "good" ELSE IF score >= 4 THEN "moderate" ELSE "poor"

----------------------------------------------------------------------------
(* Inputs *)

\* the values Date.now() returns
Nows == {7000, 9500}
OneNow == {7000}

\* readings of the "readings" path: with and without position and timestamp,
\* with missing numeric fields
ReadingGood == [ph |-> 70, temperature |-> 240, tds |-> 2000, turbidity |-> 20,
                timestamp |-> 1000]
ReadingFix == [ph |-> 70, temperature |-> 240, tds |-> 2000, turbidity |-> 20,
               timestamp |-> 3000, lat |-> 12, lon |-> 77]
ReadingLatZero == [ph |-> 62, temperature |-> 330, tds |-> 5500, turbidity |-> 120,
                   timestamp |-> 2000, lat |-> 0, lon |-> 5]
ReadingOrigin == [temperature |-> 240, lat |-> 0, lon |-> 0]

Readings == {ReadingGood, ReadingFix, ReadingLatZero, ReadingOrigin}

\* the non-empty snapshots of at most n readings over rs, in iteration order
Batches(rs, n) == UNION {[1..k -> rs] : k \in 1..n}

\* the grid of the water quality score: every band boundary of the four values,
\* with a value on each side of it
PhGrid == {0, 59, 60, 64, 65, 85, 86, 90, 91}
TemperatureGrid == {149, 150, 199, 200, 280, 281, 320, 321}
TdsGrid == {4999, 5000, 5999, 6000}
TurbidityGrid == {49, 50, 99, 100}

GridReadings ==
    {[ph |-> p, temperature |-> t, tds |-> d, turbidity |-> u, timestamp |-> 1000] :
        p \in PhGrid, t \in TemperatureGrid, d \in TdsGrid, u \in TurbidityGrid}

\* the click positions of addWaypoint
WaypointPositions == {<<10, 20>>, <<30, 40>>}

----------------------------------------------------------------------------
(* Mission type (../types/mission) *)

createEmptyMission == [waypoints |-> <<>>, status |-> "draft"]

addWaypointToMission(m, x, y) ==
    [m EXCEPT !.waypoints = Append(@, [x |-> x, y |-> y, seq |-> Len(@)])]

----------------------------------------------------------------------------
(* Initial state *)

Init ==
    /\ isOnline = FALSE
    /\ hasGpsFix = FALSE
    /\ lastUpdate \in Nows
    /\ sensorData = [ph |-> 0, temperature |-> 0, tds |-> 0, turbidity |-> 0]
    /\ waterQuality = "good"
    /\ vehiclePosition = <<>>
    /\ trail = <<>>
    /\ mission = createEmptyMission
    /\ renderedMission = createEmptyMission
    /\ addWaypointMode = FALSE
    /\ chartData = <<>>
    /\ missionLog = <<>>
    /\ missions = <<>>
    /\ lastToast = <<>>
    /\ lastBatch = [kind |-> "none"]
    /\ posHist = <<>>
    /\ lastCmd = [op |-> "none"]
    /\ lastPosEvent = "none"
    /\ authState = "pending"
    /\ authReady = FALSE
    /\ authLog = "none"
    /\ subscriptions = {}

----------------------------------------------------------------------------
(* Readings subscription *)

\* newSensorData
NewSensorData(latest) ==
    [ph |-> Nullish(latest, "ph", 0),
     temperature |-> Nullish(latest, "temperature", 0),
     tds |-> Nullish(latest, "tds", 0),
     turbidity |-> Nullish(latest, "turbidity", 0)]

\* latest.lat && latest.lon && (latest.lat !== 0 || latest.lon !== 0)
GpsCheck(latest) ==
    /\ Truthy(latest, "lat")
    /\ Truthy(latest, "lon")
    /\ (latest.lat # 0 \/ latest.lon # 0)

\* NewHasGpsFix with a fault: setHasGpsFix(condition) on every batch
NewHasGpsFixFollowsBatch(prev, latest) == GpsCheck(latest)

\* the GPS check: setHasGpsFix(true) under the condition, no call otherwise
NewHasGpsFix(prev, latest) == IF GpsCheck(latest) THEN TRUE ELSE prev

\* one entry of the chart
ChartPoint(e, now) ==
    [timestamp |-> ToLocaleTimeString(OrElse(e, "timestamp", now)),
     ph |-> Nullish(e, "ph", 0),
     temperature |-> Nullish(e, "temperature", 0),
     turbidity |-> Nullish(e, "turbidity", 0),
     tds |-> Nullish(e, "tds", 0)]

\* Latest with a fault: the first entry of the batch
LatestFirst(entries) == entries[1]

\* entries[entries.length - 1]
Latest(entries) == entries[Len(entries)]

\* NewLastUpdate with a fault: the clock whatever the reading carries
NewLastUpdateNow(latest, now) == now

\* new Date(latest.timestamp || Date.now())
NewLastUpdate(latest, now) == OrElse(latest, "timestamp", now)

\* the callback on a snapshot that holds data
OnReadings(data, now) ==
    LET entries == data
        latest == Latest(entries)
        newSensorData == NewSensorData(latest)
    IN  /\ isOnline' = TRUE
        /\ lastUpdate' = NewLastUpdate(latest, now)
        /\ sensorData' = newSensorData
        /\ waterQuality' = calculateWaterQuality(newSensorData)
        /\ hasGpsFix' = NewHasGpsFix(hasGpsFix, latest)
        /\ chartData' = [i \in 1..Len(entries) |-> ChartPoint(entries[i], now)]
        /\ lastBatch' = [kind |-> "data", data |-> data]
        /\ UNCHANGED <<positionVars, missionVars, posHist, lastCmd, lastPosEvent, sessionVars>>

\* OnReadingsAbsent with a fault: setIsOnline(true) ahead of the test of data
OnReadingsAbsentMarksOnline ==
    /\ isOnline' = TRUE
    /\ lastBatch' = [kind |-> "absent"]
    /\ UNCHANGED <<hasGpsFix, lastUpdate, sensorData, waterQuality, chartData>>
    /\ UNCHANGED <<positionVars, missionVars, posHist, lastCmd, lastPosEvent, sessionVars>>

\* the callback on a snapshot whose value is null
OnReadingsAbsent ==
    /\ lastBatch' = [kind |-> "absent"]
    /\ UNCHANGED <<telemetryVars, positionVars, missionVars, posHist, lastCmd, lastPosEvent,
                   sessionVars>>

----------------------------------------------------------------------------
(* Vehicle position subscription *)

\* the record the tracker stores
VehiclePos(pos, now) ==
    [lat |-> pos.lat,
     lon |-> pos.lon,
     alt |-> Nullish(pos, "alt", 0),
     heading |-> Nullish(pos, "heading", 0),
     groundspeed |-> Nullish(pos, "groundspeed", 0),
     timestamp |-> Nullish(pos, "timestamp", ToISOString(now))]

\* NewTrail with a fault: the slice is left out
NewTrailNoSlice(prevTrail, vehiclePos) ==
    Append(prevTrail, <<vehiclePos.lat, vehiclePos.lon>>)

\* NewTrail with a fault: slice(0, 300), which keeps the oldest points
NewTrailKeepsOldest(prevTrail, vehiclePos) ==
    SubSeq(Append(prevTrail, <<vehiclePos.lat, vehiclePos.lon>>), 1,
           IF Len(prevTrail) + 1 <= 300 THEN Len(prevTrail) + 1 ELSE 300)

\* the updater handed to setTrail
NewTrail(prevTrail, vehiclePos) ==
    SliceLast(Append(prevTrail, <<vehiclePos.lat, vehiclePos.lon>>), 300)

\* OnPosition with a fault: a position record sets the GPS fix
OnPositionSetsFix(pos, now) ==
    LET vehiclePos == VehiclePos(pos, now)
    IN  /\ vehiclePosition' = <<vehiclePos>>
        /\ trail' = NewTrail(trail, vehiclePos)
        /\ hasGpsFix' = TRUE
        /\ posHist' = Append(posHist, <<pos.lat, pos.lon>>)
        /\ lastPosEvent' = "record"
        /\ UNCHANGED <<isOnline, lastUpdate, sensorData, waterQuality, chartData>>
        /\ UNCHANGED <<missionVars, lastBatch, lastCmd, sessionVars>>

\* the callback on a position record
OnPosition(pos, now) ==
    LET vehiclePos == VehiclePos(pos, now)
    IN  /\ vehiclePosition' = <<vehiclePos>>
        /\ trail' = NewTrail(trail, vehiclePos)
        /\ posHist' = Append(posHist, <<pos.lat, pos.lon>>)
        /\ lastPosEvent' = "record"
        /\ UNCHANGED <<telemetryVars, missionVars, lastBatch, lastCmd, sessionVars>>

\* OnPositionAbsent with a fault: setVehiclePosition(null) on a null snapshot
OnPositionAbsentClears ==
    /\ lastPosEvent' = "absent"
    /\ vehiclePosition' = <<>>
    /\ UNCHANGED <<telemetryVars, trail, missionVars, lastBatch, posHist, lastCmd, sessionVars>>

\* the callback on a snapshot whose value is null
OnPositionAbsent ==
    /\ lastPosEvent' = "absent"
    /\ UNCHANGED <<telemetryVars, positionVars, missionVars, lastBatch, posHist, lastCmd,
                   sessionVars>>

\* the deliveries that may repeat the coordinates of the record before them
RepeatAt == {2, 301}

\* the coordinates the next record may carry: those of a new place, or, at the
\* deliveries of RepeatAt, those of the record before it
NextCoords ==
    LET n == Len(posHist)
        lastLat == IF n = 0 THEN 0 ELSE posHist[n][1]
    IN  {<<lastLat + 1, 1000 + lastLat + 1>>}
            \cup (IF n + 1 \in RepeatAt THEN {posHist[n]} ELSE {})

\* the records of the "telemetry/usv-01/current" path: with and without the
\* optional fields
PositionRecords ==
    UNION {{[lat |-> c[1], lon |-> c[2]],
            [lat |-> c[1], lon |-> c[2], alt |-> 3, heading |-> 90,
             groundspeed |-> 2, timestamp |-> ToISOString(4000)]} : c \in NextCoords}

----------------------------------------------------------------------------
(* Mission commands *)

\* AddWaypointUpdate with a fault: setMission(addWaypointToMission(mission, ...)),
\* which appends to the mission of the render
AddWaypointUpdateStale(prev, position) ==
    addWaypointToMission(renderedMission, position[1], position[2])

\* the updater handed to setMission by handleAddWaypoint
AddWaypointUpdate(prev, position) ==
    addWaypointToMission(prev, position[1], position[2])

\* SendGuard with a fault: >= 0
SendGuardAlways(m) == Len(m.waypoints) >= 0

\* the condition of handleSendWaypoints
SendGuard(m) == Len(m.waypoints) > 0

\* MissionPayload with a fault: lat and lon taken from the wrong coordinate
MissionPayloadSwapped(m, now) ==
    [waypoints |-> [i \in 1..Len(m.waypoints) |->
                        [lat |-> m.waypoints[i].y,
                         lon |-> m.waypoints[i].x,
                         seq |-> m.waypoints[i].seq]],
     status |-> "pending",
     created_at |-> ToISOString(now)]

\* the value written to the store
MissionPayload(m, now) ==
    [waypoints |-> [i \in 1..Len(m.waypoints) |->
                        [lat |-> m.waypoints[i].x,
                         lon |-> m.waypoints[i].y,
                         seq |-> m.waypoints[i].seq]],
     status |-> "pending",
     created_at |-> ToISOString(now)]

\* missionEntry
MissionEntry(m, now) ==
    [id |-> ToString10(now),
     timestamp |-> ToLocaleString(now),
     mission |-> m,
     waypointCount |-> Len(m.waypoints),
     status |-> "Pending",
     message |-> <<"Mission uploaded to Firebase. Waiting for USV acknowledgement",
                   Len(m.waypoints),
                   IF Len(m.waypoints) # 1 THEN "waypoints" ELSE "waypoint">>]

\* NewMissionLog with a fault: the new entry behind the earlier ones
NewMissionLogAtEnd(prev, missionEntry) == prev \o <<missionEntry>>

\* the updater handed to setMissionLog
NewMissionLog(prev, missionEntry) == <<missionEntry>> \o prev

\* AddWaypointToast with a fault: the count without the + 1
AddWaypointToastCount(m) ==
    [kind |-> "success", text |-> <<"Waypoint", Len(m.waypoints), "added">>]

\* toast.success(`Waypoint ${mission.waypoints.length + 1} added`)
AddWaypointToast(m) ==
    [kind |-> "success", text |-> <<"Waypoint", Len(m.waypoints) + 1, "added">>]

handleAddWaypoint(position) ==
    /\ mission' = AddWaypointUpdate(mission, position)
    /\ addWaypointMode' = FALSE
    /\ lastToast' = AddWaypointToast(renderedMission)
    /\ lastCmd' = [op |-> "addWaypoint"]
    /\ UNCHANGED <<renderedMission, missionLog, missions>>
    /\ UNCHANGED <<telemetryVars, positionVars, lastBatch, posHist, lastPosEvent, sessionVars>>

\* handleClearWaypoints with a fault: the notification without the setMission
handleClearWaypointsToastOnly ==
    /\ lastToast' = [kind |-> "info", text |-> <<"Waypoints cleared">>]
    /\ lastCmd' = [op |-> "clearWaypoints"]
    /\ UNCHANGED <<mission, renderedMission, addWaypointMode, missionLog, missions>>
    /\ UNCHANGED <<telemetryVars, positionVars, lastBatch, posHist, lastPosEvent, sessionVars>>

\* handleClearWaypoints with a fault: the mission log is emptied as well
handleClearWaypointsAndLog ==
    /\ mission' = createEmptyMission
    /\ missionLog' = <<>>
    /\ lastToast' = [kind |-> "info", text |-> <<"Waypoints cleared">>]
    /\ lastCmd' = [op |-> "clearWaypoints"]
    /\ UNCHANGED <<renderedMission, addWaypointMode, missions>>
    /\ UNCHANGED <<telemetryVars, positionVars, lastBatch, posHist, lastPosEvent, sessionVars>>

handleClearWaypoints ==
    /\ mission' = createEmptyMission
    /\ lastToast' = [kind |-> "info", text |-> <<"Waypoints cleared">>]
    /\ lastCmd' = [op |-> "clearWaypoints"]
    /\ UNCHANGED <<renderedMission, addWaypointMode, missionLog, missions>>
    /\ UNCHANGED <<telemetryVars, positionVars, lastBatch, posHist, lastPosEvent, sessionVars>>

handleSendWaypoints(now) ==
    /\ IF SendGuard(renderedMission)
       THEN /\ missions' = Append(missions, [path |-> "missions", op |-> "create",
                                             value |-> MissionPayload(renderedMission, now)])
            /\ missionLog' = NewMissionLog(missionLog, MissionEntry(renderedMission, now))
            /\ lastToast' = [kind |-> "success",
                             text |-> <<Len(renderedMission.waypoints),
                                        "waypoints sent to Firebase for USV">>]
       ELSE UNCHANGED <<missions, missionLog, lastToast>>
    /\ lastCmd' = [op |-> "sendMission"]
    /\ UNCHANGED <<mission, renderedMission, addWaypointMode>>
    /\ UNCHANGED <<telemetryVars, positionVars, lastBatch, posHist, lastPosEvent, sessionVars>>

\* the map's control that arms the next click
SetAddWaypointMode(b) ==
    /\ addWaypointMode' = b
    /\ UNCHANGED <<mission, renderedMission, missionLog, missions, lastToast>>
    /\ UNCHANGED <<telemetryVars, positionVars, lastBatch, posHist, lastCmd, lastPosEvent,
                   sessionVars>>

\* React renders the component again: the handlers close over the current mission
Render ==
    /\ renderedMission # mission
    /\ renderedMission' = mission
    /\ UNCHANGED <<mission, addWaypointMode, missionLog, missions, lastToast>>
    /\ UNCHANGED <<telemetryVars, positionVars, lastBatch, posHist, lastCmd, lastPosEvent,
                   sessionVars>>

----------------------------------------------------------------------------
(* Session (../services/firebase) and mount *)

\* Device ID must match the Pi's DEVICE_ID
DEVICE_ID == "usv-01"

\* the paths the two effects of App subscribe to when the component mounts
MountSubscriptions ==
    {<<".info", "connected">>, <<"readings">>, <<"telemetry", DEVICE_ID, "current">>}

\* the effects of the first render: App subscribes without a look at authReady
Mount ==
    /\ subscriptions = {}
    /\ subscriptions' = MountSubscriptions
    /\ UNCHANGED <<authState, authReady, authLog>>
    /\ UNCHANGED <<telemetryVars, positionVars, missionVars, lastBatch, posHist, lastCmd,
                   lastPosEvent>>

\* signInAnonymously fulfils: the then reaction logs, authReady is fulfilled
AuthSucceeds ==
    /\ authState = "pending"
    /\ authState' = "signedIn"
    /\ authLog' = "log"
    /\ authReady' = TRUE
    /\ UNCHANGED subscriptions
    /\ UNCHANGED <<telemetryVars, positionVars, missionVars, lastBatch, posHist, lastCmd,
                   lastPosEvent>>

\* signInAnonymously rejects: the catch reaction logs the error and returns, so
\* that authReady is fulfilled
AuthFails ==
    /\ authState = "pending"
    /\ authState' = "failed"
    /\ authLog' = "error"
    /\ authReady' = TRUE
    /\ UNCHANGED subscriptions
    /\ UNCHANGED <<telemetryVars, positionVars, missionVars, lastBatch, posHist, lastCmd,
                   lastPosEvent>>

\* the component is mounted: its handlers are rendered and its effects have run
Mounted == subscriptions # {}

----------------------------------------------------------------------------
(* Events *)

ReadingsEvent(batches, nows) ==
    /\ <<"readings">> \in subscriptions
    /\ \E data \in batches, now \in nows : OnReadings(data, now)

ReadingsAbsentEvent ==
    /\ <<"readings">> \in subscriptions
    /\ OnReadingsAbsent

PositionEvent(maxPos, nows) ==
    /\ <<"telemetry", DEVICE_ID, "current">> \in subscriptions
    /\ Len(posHist) < maxPos
    /\ \E pos \in PositionRecords, now \in nows : OnPosition(pos, now)

PositionAbsentEvent ==
    /\ <<"telemetry", DEVICE_ID, "current">> \in subscriptions
    /\ OnPositionAbsent

AddWaypointCommand ==
    /\ Mounted
    /\ Len(mission.waypoints) < MaxWaypoints
    /\ \E position \in WaypointPositions : handleAddWaypoint(position)

ClearWaypointsCommand ==
    /\ Mounted
    /\ handleClearWaypoints

SendMissionCommand(nows) ==
    /\ Mounted
    /\ Len(missionLog) < MaxSends
    /\ \E now \in nows : handleSendWaypoints(now)

\* a click on one of the given places of the map
AddWaypointCommandAt(positions) ==
    /\ Mounted
    /\ Len(mission.waypoints) < MaxWaypoints
    /\ \E position \in positions : handleAddWaypoint(position)

\* a click on send while fewer than maxSends missions were sent
SendMissionCommandUpTo(maxSends, nows) ==
    /\ Mounted
    /\ Len(missionLog) < maxSends
    /\ \E now \in nows : handleSendWaypoints(now)

ModeCommand ==
    /\ Mounted
    /\ \E b \in BOOLEAN : SetAddWaypointMode(b)

----------------------------------------------------------------------------
(* Specifications *)

\* the telemetry reducer under every batch of Readings, with the position
\* tracker and the mission commands of an empty mission interleaved
Next ==
    \/ Mount
    \/ ReadingsEvent(Batches(Readings, MaxBatch), Nows)
    \/ ReadingsAbsentEvent
    \/ PositionEvent(MaxPosFew, OneNow)
    \/ PositionAbsentEvent
    \/ ClearWaypointsCommand
    \/ SendMissionCommand(OneNow)

Spec == Init /\ [][Next]_vars

\* the mission commands and the render, with one reading batch interleaved
NextMission ==
    \/ Mount
    \/ AddWaypointCommand
    \/ ClearWaypointsCommand
    \/ SendMissionCommand(OneNow)
    \/ ModeCommand
    \/ Render
    \/ ReadingsEvent({<<ReadingFix>>}, OneNow)

SpecMission == Init /\ [][NextMission]_vars

\* the position tracker past the capacity of the trail, with one reading batch
\* and the mission commands of an empty mission interleaved
NextTrail ==
    \/ Mount
    \/ PositionEvent(MaxPos, OneNow)
    \/ PositionAbsentEvent
    \/ ReadingsEvent({<<ReadingFix>>}, OneNow)
    \/ ClearWaypointsCommand
    \/ SendMissionCommand(OneNow)

SpecTrail == Init /\ [][NextTrail]_vars

\* the water quality of every reading of the grid
NextScore ==
    \/ Mount
    \/ ReadingsEvent(Batches(GridReadings, 1), OneNow)

SpecScore == Init /\ [][NextScore]_vars

\* the session next to the subscriptions and the mission commands
NextAuth ==
    \/ Mount
    \/ AuthSucceeds
    \/ AuthFails
    \/ ReadingsEvent({<<ReadingFix>>}, OneNow)
    \/ PositionEvent(MaxPosFew, OneNow)
    \/ AddWaypointCommand
    \/ Render
    \/ SendMissionCommand(OneNow)

SpecAuth == Init /\ [][NextAuth]_vars

\* several missions sent, with both subscriptions delivering in between
NextLog ==
    \/ Mount
    \/ AddWaypointCommandAt({<<10, 20>>})
    \/ ClearWaypointsCommand
    \/ SendMissionCommandUpTo(MaxSendsLog, OneNow)
    \/ Render
    \/ ReadingsEvent({<<ReadingFix>>}, OneNow)
    \/ PositionEvent(MaxPosFew, OneNow)

SpecLog == Init /\ [][NextLog]_vars

----------------------------------------------------------------------------
(* Properties *)

\* the reading the reducer selected from the last batch that held data
SelectedReading == lastBatch.data[Len(lastBatch.data)]

\* C1: in every reachable state, whatever position records, reading batches and
\* mission commands were delivered, the trail holds at most 300 points.
C1_TrailAtMost300 == Len(trail) <= 300

\* C1 witness: more than 300 position records were delivered, reading batches
\* and mission commands among them, and the trail is full.
C1_Witness ==
    /\ Len(posHist) > 300
    /\ Len(trail) = 300
    /\ isOnline
    /\ lastCmd.op # "none"

\* C2: after n position records the trail is the <<lat, lon>> of the last
\* min(n, 300) of them in delivery order, oldest first, repeated coordinates kept
\* as separate entries; after 301 records it has 300 points and starts with the
\* coordinates of the 2nd record.
C2_TrailIsLastRecords ==
    LET n == Len(posHist)
        k == IF n < 300 THEN n ELSE 300
    IN  /\ Len(trail) = k
        /\ \A i \in 1..k : trail[i] = posHist[n - k + i]
        /\ (n = 301 => Len(trail) = 300 /\ trail[1] = posHist[2])

\* C2 witness: 301 records were delivered, the 1st was evicted, and the 301st,
\* which repeats the coordinates of the 300th, is kept as an entry of its own.
C2_Witness ==
    /\ Len(posHist) = 301
    /\ posHist[1] # posHist[2]
    /\ Len(trail) = 300
    /\ trail[1] = posHist[2]
    /\ trail[299] = trail[300]
    /\ trail[300] = posHist[301]

\* C3: hasGpsFix is a latch: no step takes it from true to false.
C3_GpsFixLatch == [][hasGpsFix => hasGpsFix']_vars

\* C3 witness: the fix is set and the last batch processed selected a reading
\* with no position, or with the position (0, 0).
C3_Witness ==
    /\ hasGpsFix
    /\ lastBatch.kind = "data"
    /\ SelectedReading \in {ReadingGood, ReadingOrigin}

\* C4: after a batch whose selected reading carries a latitude/longitude pair
\* other than (0, 0), also one with exactly one coordinate 0, hasGpsFix is true.
C4_FixOnEveryPairButOrigin ==
    ( /\ lastBatch.kind = "data"
      /\ Has(SelectedReading, "lat")
      /\ Has(SelectedReading, "lon")
      /\ ~(SelectedReading.lat = 0 /\ SelectedReading.lon = 0) )
    => hasGpsFix

\* the steps of the three mission commands
SendStep == \E now \in Nows : handleSendWaypoints(now)
AddStep == \E position \in WaypointPositions : handleAddWaypoint(position)
ClearStep == handleClearWaypoints

\* C5: sendMission on a mission with no waypoints (the mission its handler
\* reads) issues no write, appends no log entry and changes neither the
\* mission, the log nor the telemetry and position state.
C5_SendOnEmptyChangesNothing ==
    [][(SendStep /\ Len(renderedMission.waypoints) = 0)
        => UNCHANGED <<missions, missionLog, mission, renderedMission, lastToast,
                       addWaypointMode, telemetryVars, positionVars>>]_vars

\* C5 witness: sendMission was the last command, on an empty mission, and
\* neither a write nor a log entry exists.
C5_Witness ==
    /\ lastCmd.op = "sendMission"
    /\ mission.waypoints = <<>>
    /\ renderedMission.waypoints = <<>>
    /\ missions = <<>>
    /\ missionLog = <<>>

\* C6: sendMission on a mission with k > 0 waypoints issues exactly one create
\* write to "missions", with status "pending" and the k waypoints in order as
\* [lat |-> x, lon |-> y, seq], and puts exactly one entry with status "Pending"
\* and waypointCount k in the log; the log has as many entries as writes were
\* issued.
C6_SendWritesOnceLogsOnce ==
    /\ [](Len(missionLog) = Len(missions))
    /\ [][(SendStep /\ Len(renderedMission.waypoints) > 0)
            => LET k == Len(renderedMission.waypoints)
                   write == missions'[Len(missions')]
               IN  /\ Len(missions') = Len(missions) + 1
                   /\ SubSeq(missions', 1, Len(missions)) = missions
                   /\ write.path = "missions"
                   /\ write.op = "create"
                   /\ write.value.status = "pending"
                   /\ Len(write.value.waypoints) = k
                   /\ \A i \in 1..k :
                        write.value.waypoints[i] =
                            [lat |-> renderedMission.waypoints[i].x,
                             lon |-> renderedMission.waypoints[i].y,
                             seq |-> renderedMission.waypoints[i].seq]
                   /\ Len(missionLog') = Len(missionLog) + 1
                   /\ Tail(missionLog') = missionLog
                   /\ missionLog'[1].status = "Pending"
                   /\ missionLog'[1].waypointCount = k]_vars

\* C6 witness: a mission of two waypoints at different places was sent: one
\* write with both waypoints in order, one log entry counting 2.
C6_Witness ==
    /\ lastCmd.op = "sendMission"
    /\ Len(missions) = 1
    /\ Len(missionLog) = 1
    /\ missionLog[1].waypointCount = 2
    /\ Len(missions[1].value.waypoints) = 2
    /\ missions[1].value.waypoints[1].lat # missions[1].value.waypoints[2].lat
    /\ missions[1].value.waypoints[2].seq = 1

\* the state of a mission in the machine {Empty, Draft, Sent}
MissionState(m) ==
    IF Len(m.waypoints) = 0 THEN "Empty"
    ELSE IF m.status = "sent" THEN "Sent" ELSE "Draft"

\* C7 as stated: sendMission on a Draft mission leaves the mission in Sent,
\* addWaypoint leaves it in Draft, clearWaypoints leaves it in Empty.
C7_SendLeavesSent ==
    [][/\ (SendStep /\ MissionState(renderedMission) = "Draft")
            => MissionState(mission') = "Sent"
       /\ AddStep => MissionState(mission') = "Draft"
       /\ ClearStep => MissionState(mission') = "Empty"]_vars

\* C7 amended: sendMission never changes the mission, so that a Draft mission
\* stays Draft and no mission is ever in Sent; addWaypoint leaves the mission in
\* Draft; clearWaypoints leaves it in Empty.
C7_SendLeavesMissionAsItIs ==
    /\ [](MissionState(mission) \in {"Empty", "Draft"})
    /\ [][/\ SendStep => mission' = mission
          /\ AddStep => MissionState(mission') = "Draft"
          /\ ClearStep => MissionState(mission') = "Empty"]_vars

\* C7 witness: a Draft mission was sent (the write and the log entry exist) and
\* is still Draft.
C7_Witness ==
    /\ lastCmd.op = "sendMission"
    /\ Len(missionLog) = 1
    /\ missionLog[1].mission = mission
    /\ MissionState(mission) = "Draft"

\* C8: the waypoints of the mission carry seq 0, 1, ..., n-1 in order; each
\* addWaypoint appends one waypoint whose seq is the count before the append,
\* also when the handlers were not rendered again since earlier appends, and
\* clearWaypoints leaves no waypoint, so that the next append assigns 0.
C8_SeqIsIndex ==
    /\ [](\A i \in 1..Len(mission.waypoints) : mission.waypoints[i].seq = i - 1)
    /\ [][/\ AddStep
                => \E position \in WaypointPositions :
                       mission'.waypoints =
                           Append(mission.waypoints,
                                  [x |-> position[1], y |-> position[2],
                                   seq |-> Len(mission.waypoints)])
          /\ ClearStep => mission'.waypoints = <<>>]_vars

\* C8 witness: since the last render, which saw one waypoint, the mission was
\* cleared and two waypoints were added, with seq 0 and 1.
C8_Witness ==
    /\ lastCmd.op = "addWaypoint"
    /\ Len(renderedMission.waypoints) = 1
    /\ Len(mission.waypoints) = 2
    /\ mission.waypoints[1].x # renderedMission.waypoints[1].x
    /\ mission.waypoints[1].seq = 0
    /\ mission.waypoints[2].seq = 1

\* the reference scorer: the points of a value, doubled, from its closed bands
\* [fullLo, fullHi] and [halfLo, halfHi] or from its limits, and the class of the
\* sum of the four
RangePoints(v, fullLo, fullHi, halfLo, halfHi) ==
    CASE fullLo <= v /\ v <= fullHi -> 2
      [] (v < fullLo \/ v > fullHi) /\ halfLo <= v /\ v <= halfHi -> 1
      [] OTHER -> 0
LimitPoints(v, fullBelow, halfBelow) ==
    CASE v < fullBelow -> 2
      [] fullBelow <= v /\ v < halfBelow -> 1
      [] OTHER -> 0
RefPoints(d) ==
    RangePoints(d.ph, 65, 85, 60, 90)
        + RangePoints(d.temperature, 200, 280, 150, 320)
        + LimitPoints(d.tds, 5000, 6000)
        + LimitPoints(d.turbidity, 50, 100)
RefClass(d) ==
    CASE RefPoints(d) >= 7 -> "good"
      [] RefPoints(d) >= 4 /\ RefPoints(d) < 7 -> "moderate"
      [] RefPoints(d) < 4 -> "poor"
InFullBands(d) ==
    /\ d.ph \in 65..85
    /\ d.temperature \in 200..280
    /\ d.tds < 5000
    /\ d.turbidity < 50

\* C9: the class computed for every reading of the grid is one of good,
\* moderate and poor and is the class of the reference scorer; a reading with
\* all four values in the full bands scores 4 (8 doubled) and is good.
C9_ScoreIsReference ==
    lastBatch.kind = "data"
        => /\ waterQuality \in {"good", "moderate", "poor"}
           /\ waterQuality = RefClass(NewSensorData(SelectedReading))
           /\ InFullBands(NewSensorData(SelectedReading))
                => /\ RefPoints(NewSensorData(SelectedReading)) = 8
                   /\ waterQuality = "good"

\* C9 witness: the reading with every value on the last value of its full band
\* (pH 8.5, 28 degrees, TDS and turbidity just below 500 and 5) was scored good.
C9_Witness ==
    /\ lastBatch.kind = "data"
    /\ sensorData = [ph |-> 85, temperature |-> 280, tds |-> 4999, turbidity |-> 49]
    /\ waterQuality = "good"

\* C10: in every reachable state, the initial one included, the quality class
\* is the score of the current sensor snapshot.
C10_QualityIsScoreOfSnapshot == waterQuality = calculateWaterQuality(sensorData)

\* the program's own fields: everything but the history variables
programVars == <<telemetryVars, positionVars, missionVars, sessionVars>>

\* C11: the delivery of an absent reading batch (the snapshot of a path without
\* data holds null) changes no field of the program: connectivity, lastUpdate,
\* sensor snapshot, quality class, GPS fix, chart, position, trail, mission and
\* mission log are as before.
C11_AbsentBatchChangesNothing ==
    [][(lastBatch'.kind = "absent" /\ lastBatch.kind # "absent")
        => UNCHANGED programVars]_vars

\* C11 witness: an absent batch was delivered after a batch with data and after
\* a position; what they had set is still there.
C11_Witness ==
    /\ lastBatch.kind = "absent"
    /\ isOnline
    /\ chartData # <<>>
    /\ sensorData.ph # 0
    /\ trail # <<>>

\* C12: no subscription and no store write is issued before the handshake has
\* completed: whenever a path is subscribed to or a mission was written,
\* authReady is fulfilled.
C12_ReadyBeforeSubscribeAndWrite ==
    (subscriptions # {} \/ missions # <<>>) => authReady

\* C13: after a failed handshake the failure is logged and the readiness signal
\* has not fired: authReady stays pending for ever.
C13_FailedStaysPreReady ==
    authState = "failed" => (authLog = "error" /\ ~authReady)

\* C14: clearWaypoints from any state leaves a mission with no waypoints and
\* the status of a new mission, and changes neither the mission log nor the
\* telemetry and position state.
C14_ClearResetsMissionOnly ==
    [][ClearStep
        => /\ mission'.waypoints = <<>>
           /\ mission'.status = createEmptyMission.status
           /\ UNCHANGED <<missionLog, missions>>
           /\ UNCHANGED <<telemetryVars, positionVars>>]_vars

\* C14 witness: a mission with waypoints was sent and then cleared after a
\* reading batch: the mission is empty, the log entry and the telemetry are
\* still there.
C14_Witness ==
    /\ lastCmd.op = "clearWaypoints"
    /\ mission = createEmptyMission
    /\ Len(renderedMission.waypoints) > 0
    /\ Len(missionLog) = 1
    /\ isOnline

\* the four numeric fields of a reading, 0 for a field the reading lacks
NumericFields(r) ==
    [f \in {"ph", "temperature", "tds", "turbidity"} |->
        IF f \in DOMAIN r THEN r[f] ELSE 0]

\* C15: after a batch with data, the sensor snapshot holds the four numeric
\* fields of the last reading in the order of the batch (0 for a missing
\* field), whatever the timestamps of the readings, and the chart holds one
\* entry per reading of this batch, in the order of the batch, and nothing of
\* an earlier batch.
C15_SnapshotIsLastReading ==
    lastBatch.kind = "data"
        => /\ sensorData = NumericFields(SelectedReading)
           /\ Len(chartData) = Len(lastBatch.data)
           /\ \A i \in 1..Len(chartData) :
                  \A f \in {"ph", "temperature", "tds", "turbidity"} :
                      chartData[i][f] = NumericFields(lastBatch.data[i])[f]

\* C15 witness: a batch of two readings whose last reading carries the older
\* timestamp; the snapshot is the last reading's.
C15_Witness ==
    /\ lastBatch = [kind |-> "data", data |-> <<ReadingFix, ReadingLatZero>>]
    /\ ReadingFix.timestamp > ReadingLatZero.timestamp
    /\ sensorData.ph = ReadingLatZero.ph
    /\ sensorData.ph # ReadingFix.ph
    /\ Len(chartData) = 2

\* the timestamps the readings of the last batch carry
BatchTimestamps ==
    {lastBatch.data[i].timestamp :
        i \in {j \in 1..Len(lastBatch.data) : "timestamp" \in DOMAIN lastBatch.data[j]}}

\* the greatest element of a non-empty set of numbers
Maximum(S) == CHOOSE m \in S : \A x \in S : x <= m

\* isOnline is false before the first batch with data and changes only once,
\* to true, on the delivery of a batch with data
OnlineSinceFirstBatch ==
    /\ [](lastBatch.kind = "none" => ~isOnline)
    /\ [](lastBatch.kind = "data" => isOnline)
    /\ [][isOnline' # isOnline => (isOnline' /\ lastBatch'.kind = "data")]_vars

\* C16 as stated: after a batch with data isOnline is true and lastUpdate is
\* the greatest timestamp any reading of the batch carries, the clock only
\* when no reading carries one; isOnline is true exactly from the first batch
\* with data on.
C16_LastUpdateIsMaxTimestamp ==
    /\ [](lastBatch.kind = "data"
            => IF BatchTimestamps # {}
               THEN lastUpdate = Maximum(BatchTimestamps)
               ELSE lastUpdate \in Nows)
    /\ OnlineSinceFirstBatch

\* C16 amended: after a batch with data isOnline is true and lastUpdate is the
\* timestamp of the last reading of the batch, in the order of the batch, and
\* the clock when that reading carries none (or 0); isOnline is true exactly
\* from the first batch with data on.
C16_LastUpdateIsSelectedTimestamp ==
    /\ [](lastBatch.kind = "data"
            => IF "timestamp" \in DOMAIN SelectedReading /\ SelectedReading.timestamp # 0
               THEN lastUpdate = SelectedReading.timestamp
               ELSE lastUpdate \in Nows)
    /\ OnlineSinceFirstBatch

\* C16 witness: the last reading of the batch carries an older timestamp than
\* the first; lastUpdate is the older one.
C16_Witness ==
    /\ lastBatch.kind = "data"
    /\ Len(lastBatch.data) = 2
    /\ BatchTimestamps = {ReadingFix.timestamp, ReadingLatZero.timestamp}
    /\ isOnline
    /\ lastUpdate = ReadingLatZero.timestamp
    /\ lastUpdate < Maximum(BatchTimestamps)

\* C17: the mission log only grows, at its front: every step leaves the log
\* as it is, entries and order, or is a sendMission that puts one new entry in
\* front of the unchanged earlier ones; addWaypoint and clearWaypoints leave
\* every entry, the mission it holds included, as it is.
C17_LogGrowsAtFront ==
    [][/\ missionLog' # missionLog
            => /\ SendStep
               /\ Len(missionLog') = Len(missionLog) + 1
               /\ Tail(missionLog') = missionLog
               /\ missionLog'[1].mission = renderedMission
       /\ (AddStep \/ ClearStep) => missionLog' = missionLog]_vars

\* C17 witness: two missions were sent, the later one with more waypoints, and
\* the mission was cleared afterwards: the later entry is in front, and both
\* entries still hold the missions that were sent.
C17_Witness ==
    /\ Len(missionLog) = 2
    /\ missionLog[1].waypointCount = 2
    /\ missionLog[2].waypointCount = 1
    /\ Len(missionLog[1].mission.waypoints) = 2
    /\ Len(missionLog[2].mission.waypoints) = 1
    /\ lastCmd.op = "clearWaypoints"
    /\ mission.waypoints = <<>>

\* C18: each event changes only the state of its owner. A step that delivers
\* a reading batch or changes the telemetry changes neither position, trail,
\* mission, mission log nor the store writes; a step that delivers a position
\* or changes position or trail changes neither the telemetry, the mission,
\* the mission log nor the store writes; a step of a mission command changes
\* neither telemetry nor position nor trail. Hence the order of a batch and a
\* position does not matter: in every state the sensor snapshot is that of the
\* last batch and the trail that of the positions delivered, whatever came in
\* between.
C18_EventsChangeOwnStateOnly ==
    /\ [][/\ (lastBatch' # lastBatch \/ telemetryVars' # telemetryVars)
                => UNCHANGED <<positionVars, posHist, lastPosEvent, missionVars, lastCmd>>
          /\ (posHist' # posHist \/ lastPosEvent' # lastPosEvent
                  \/ positionVars' # positionVars)
                => UNCHANGED <<telemetryVars, lastBatch, missionVars, lastCmd>>
          /\ (lastCmd' # lastCmd \/ missionVars' # missionVars)
                => UNCHANGED <<telemetryVars, lastBatch, positionVars, posHist,
                               lastPosEvent>>]_vars
    /\ [](lastBatch.kind = "data" => sensorData = NumericFields(SelectedReading))
    /\ [](lastBatch.kind = "none" => ~isOnline /\ chartData = <<>>)
    /\ [](trail = SliceLast(posHist, 300))

\* C18 witness: a reading batch, two positions and mission commands were
\* delivered, a mission was sent and another waypoint added after it; each
\* part of the state holds what its own events left.
C18_Witness ==
    /\ lastBatch.kind = "data"
    /\ hasGpsFix
    /\ Len(trail) = 2
    /\ Len(missionLog) = 1
    /\ lastCmd.op = "addWaypoint"
    /\ Len(mission.waypoints) = 2
    /\ missionLog[1].waypointCount = 1

\* the number shown by the notification of addWaypoint
ToastNumber(toast) == toast.text[2]

\* C19 as stated: the number in the notification of every addWaypoint, also of
\* one issued before an earlier append was rendered, is the waypoint count of
\* the mission just before this append, plus 1.
C19_ToastIsCountBeforeAppendPlusOne ==
    [][AddStep => ToastNumber(lastToast') = Len(mission.waypoints) + 1]_vars

\* C19 amended: the number in the notification of addWaypoint is the waypoint
\* count of the mission of the render the handler belongs to, plus 1; it is
\* the count just before the append plus 1 when that mission is the current
\* one, and stays behind by the number of waypoints appended or cleared since
\* that render otherwise.
C19_ToastIsRenderedCountPlusOne ==
    [][AddStep
        => /\ ToastNumber(lastToast') = Len(renderedMission.waypoints) + 1
           /\ renderedMission = mission
                => ToastNumber(lastToast') = Len(mission.waypoints) + 1
           /\ ToastNumber(lastToast') - (Len(mission.waypoints) + 1)
                = Len(renderedMission.waypoints) - Len(mission.waypoints)]_vars

\* C19 witness: two waypoints were added before the component was rendered
\* again: the mission holds two waypoints and the notification of the second
\* append says 1.
C19_Witness ==
    /\ lastCmd.op = "addWaypoint"
    /\ Len(mission.waypoints) = 2
    /\ renderedMission.waypoints = <<>>
    /\ lastToast.kind = "success"
    /\ ToastNumber(lastToast) = 1

\* C20: the vehicle position is absent exactly while the trail is empty; a
\* present position has the latitude and longitude of the last point of the
\* trail; the delivery of an absent position record changes neither.
C20_PositionIsTrailEnd ==
    /\ [](vehiclePosition = <<>> <=> trail = <<>>)
    /\ [](vehiclePosition # <<>>
            => <<vehiclePosition[1].lat, vehiclePosition[1].lon>> = trail[Len(trail)])
    /\ [][lastPosEvent' = "absent" => UNCHANGED positionVars]_vars

\* C20 witness: an absent position record was delivered after 301 records:
\* the position and the full trail are still there.
C20_Witness ==
    /\ lastPosEvent = "absent"
    /\ Len(posHist) = 301
    /\ Len(trail) = 300
    /\ vehiclePosition # <<>>

====
